---- MODULE Spec2Model ----
(***************************************************************************)
(* NewRow-Print: the Reversal Conditions kernel, the capability state      *)
(* machine it delegates to, and the role/quorum and policy-stack           *)
(* predicates they share.                                                  *)
(*                                                                         *)
(* Two kernels live in the repository:                                     *)
(*   KernelEvaluator::evaluate_reversal                                    *)
(*       (crates/policyengine/src/reversalconditions.rs), the guard chain  *)
(*   evaluate_reversal                                                     *)
(*       (policyengine/src/reversalconditions.rs), an earlier draft        *)
(* Both are modelled; "the kernel" below is KernelEvaluator.               *)
(*                                                                         *)
(* RoH values are f32 in the code; here they are integers in hundredths    *)
(* (0.30 is 30), which keeps every comparison the code makes.              *)
(***************************************************************************)
EXTENDS Integers, FiniteSets, Sequences, TLC

VARIABLES ctx, pc, decision, validation, chain, ledger, fence_log, last_call,
          transitions, writers, fragment

vars ==
    <<ctx, pc, decision, validation, chain, ledger, fence_log, last_call,
      transitions, writers, fragment>>

\* The request under evaluation and what the evaluators returned for it.
kernel_vars == <<ctx, pc, decision, validation>>

\* The chain of accepted transitions, the two hash-chained stores and the
\* last call made on them.
store_vars == <<chain, ledger, fence_log, last_call, transitions, writers, fragment>>

\* The fence log's file as its concurrent writers see it.
file_vars == <<writers, fragment>>

(***************************************************************************)
(* CapabilityState: discriminants in declaration order.                    *)
(***************************************************************************)
ModelOnly == 0
LabBench == 1
ControlledHuman == 2
GeneralUse == 3

CapabilityState == {ModelOnly, LabBench, ControlledHuman, GeneralUse}

ConsentState == {"None", "Minimal", "Extended", "Revoked"}

\* The RoH ceiling literal 0.30 of the kernel, in hundredths.
RoHCeiling == 30

\* u8 arithmetic: `count() as u8` keeps the low eight bits.
U8Modulus == 256

(***************************************************************************)
(* Decision / DecisionReason                                               *)
(***************************************************************************)
DecisionReason ==
    { "Allowed",
      "DeniedInsufficientConsent",
      "DeniedConsentRevoked",
      "DeniedPolicyStackFailure",
      "DeniedMissingEvidence",
      "DeniedIllegalDowngradeByNonRegulator",
      "DeniedNoSaferAlternativeNotProved",
      "DeniedReversalNotAllowedInTier",
      "DeniedRoHViolation",
      "DeniedRoHInvariantViolation",
      "DeniedNeuromorphReversalProhibited",
      "DeniedUnknown" }

Allowed == [allowed |-> TRUE, reason |-> "Allowed"]

denied(reason) == [allowed |-> FALSE, reason |-> reason]

NoDecision == [allowed |-> FALSE, reason |-> "NoDecision"]

(***************************************************************************)
(* PolicyStack: four tag sets.                                             *)
(***************************************************************************)
\* is_satisfied with the quantum-ai-safety test lost.
is_satisfied_without_quantum(ps) ==
    /\ ps.base_medical # {}
    /\ ps.base_engineering # {}

\* PolicyStack::is_satisfied of the capability state machine's schema.
is_satisfied(ps) ==
    /\ ps.base_medical # {}
    /\ ps.base_engineering # {}
    /\ ps.quantum_ai_safety # {}

\* alncore::PolicyStack::all_pass, called by both kernels; alncore is not
\* among the sources, so this is the structural AND of the four groups.
all_pass(ps) ==
    /\ ps.base_medical # {}
    /\ ps.base_engineering # {}
    /\ ps.juris_local # {}
    /\ ps.quantum_ai_safety # {}

(***************************************************************************)
(* RoleSet: a Vec<Role>, kept as the number of occurrences of each role    *)
(* (the code only asks any() and filter().count()).                        *)
(***************************************************************************)
has_role(roles, role) == roles[role] > 0

count_role(roles, role) == roles[role] % U8Modulus

neuromorph_god_satisfied(roles, required_regulator_quorum) ==
    LET has_host == has_role(roles, "Host")
        has_owner == has_role(roles, "OrganicCpuOwner")
        has_kernel == has_role(roles, "SovereignKernel")
        reg_count == count_role(roles, "Regulator")
    IN  has_host /\ has_owner /\ has_kernel
            /\ reg_count >= required_regulator_quorum

(***************************************************************************)
(* Capability state machine: CapabilityTransition::validate.               *)
(* The result is "Ok" or the error the code returns first.                 *)
(***************************************************************************)
\* validate with the arm that rejects ModelOnly -> ControlledHuman lost.
validate_direct_jump(t) ==
    IF t.from = ModelOnly /\ t.to = GeneralUse THEN "ErrModelOnlyToGeneralUse"
    ELSE IF t.from = LabBench /\ t.to = GeneralUse THEN "ErrLabBenchToGeneralUse"
    ELSE IF t.to # ModelOnly /\ t.required_evidence = {} THEN "ErrEvidenceRequired"
    ELSE IF t.to # ModelOnly /\ t.required_consent = "None" THEN "ErrConsentNone"
    ELSE IF (t.to = ControlledHuman \/ t.to = GeneralUse) /\ t.required_roles = {}
        THEN "ErrRoleRequired"
    ELSE IF ~is_satisfied(t.policystack) THEN "ErrPolicyStack"
    ELSE "Ok"

\* validate with the role check (step 4) lost.
validate_roles_unchecked(t) ==
    IF t.from = ModelOnly /\ t.to = ControlledHuman THEN "ErrModelOnlyToControlledHuman"
    ELSE IF t.from = ModelOnly /\ t.to = GeneralUse THEN "ErrModelOnlyToGeneralUse"
    ELSE IF t.from = LabBench /\ t.to = GeneralUse THEN "ErrLabBenchToGeneralUse"
    ELSE IF t.to # ModelOnly /\ t.required_evidence = {} THEN "ErrEvidenceRequired"
    ELSE IF t.to # ModelOnly /\ t.required_consent = "None" THEN "ErrConsentNone"
    ELSE IF ~is_satisfied(t.policystack) THEN "ErrPolicyStack"
    ELSE "Ok"

validate(t) ==
    IF t.from = ModelOnly /\ t.to = ControlledHuman THEN "ErrModelOnlyToControlledHuman"
    ELSE IF t.from = ModelOnly /\ t.to = GeneralUse THEN "ErrModelOnlyToGeneralUse"
    ELSE IF t.from = LabBench /\ t.to = GeneralUse THEN "ErrLabBenchToGeneralUse"
    ELSE IF t.to # ModelOnly /\ t.required_evidence = {} THEN "ErrEvidenceRequired"
    ELSE IF t.to # ModelOnly /\ t.required_consent = "None" THEN "ErrConsentNone"
    ELSE IF (t.to = ControlledHuman \/ t.to = GeneralUse) /\ t.required_roles = {}
        THEN "ErrRoleRequired"
    ELSE IF ~is_satisfied(t.policystack) THEN "ErrPolicyStack"
    ELSE "Ok"

(***************************************************************************)
(* The kernel: KernelEvaluator::evaluate_reversal and its helpers.         *)
(***************************************************************************)
is_neuromorph_downgrade(from, to) ==
    <<from, to>> \in { <<ControlledHuman, LabBench>>,
                       <<ControlledHuman, ModelOnly>>,
                       <<GeneralUse, ControlledHuman>>,
                       <<GeneralUse, LabBench>>,
                       <<GeneralUse, ModelOnly>> }

reduces_capability_and_roh(c) ==
    is_neuromorph_downgrade(c.from, c.to) /\ c.roh_after <= c.roh_before

\* 2) RoH invariants in CapControlledHuman, except safety-improving rollback
roh_guard_denies(c) ==
    /\ c.from = ControlledHuman
    /\ ~reduces_capability_and_roh(c)
    /\ (c.roh_after > c.roh_before \/ c.roh_after > RoHCeiling)

\* The Tier-1 guard with the flag test lost: it never denies.
tier1_flag_ignored(c) == FALSE

\* 3) Tier-1 flag: downgrades forbidden by default
tier1_flag_denies(c) == ~c.reversal_flags.allow_neuromorph_reversal

\* 4) Sovereign quorum ...
sovereign_quorum_denies(c) ==
    ~neuromorph_god_satisfied(c.roles, c.reversal_flags.required_regulator_quorum)

\* ... and explicit order + no-safer-alternative
explicit_order_denies(c) ==
    ~c.reversal_flags.explicit_reversal_order \/ ~c.nosaferalternative

\* 5) PolicyStack gate
policystack_gate_denies(c) == ~all_pass(c.policystack)

\* 6) Envelope recommendation must be consistent
envelope_denies(c) == ~c.envelope_ctx.request_capability_downgrade

\* The kernel consulting ambient state: with entries in the ledger it denies.
evaluate_reversal_reads_ledger(c) ==
    IF ~is_neuromorph_downgrade(c.from, c.to) THEN Allowed
    ELSE IF ledger # <<>> THEN denied("DeniedUnknown")
    ELSE IF roh_guard_denies(c) THEN denied("DeniedRoHViolation")
    ELSE IF tier1_flag_denies(c) THEN denied("DeniedReversalNotAllowedInTier")
    ELSE IF sovereign_quorum_denies(c)
        THEN denied("DeniedIllegalDowngradeByNonRegulator")
    ELSE IF explicit_order_denies(c) THEN denied("DeniedNoSaferAlternativeNotProved")
    ELSE IF policystack_gate_denies(c) THEN denied("DeniedPolicyStackFailure")
    ELSE IF envelope_denies(c) THEN denied("DeniedIllegalDowngradeByNonRegulator")
    ELSE Allowed

KernelEvaluator_evaluate_reversal(c) ==
    IF ~is_neuromorph_downgrade(c.from, c.to) THEN Allowed
    ELSE IF roh_guard_denies(c) THEN denied("DeniedRoHViolation")
    ELSE IF tier1_flag_denies(c) THEN denied("DeniedReversalNotAllowedInTier")
    ELSE IF sovereign_quorum_denies(c)
        THEN denied("DeniedIllegalDowngradeByNonRegulator")
    ELSE IF explicit_order_denies(c) THEN denied("DeniedNoSaferAlternativeNotProved")
    ELSE IF policystack_gate_denies(c) THEN denied("DeniedPolicyStackFailure")
    ELSE IF envelope_denies(c) THEN denied("DeniedIllegalDowngradeByNonRegulator")
    ELSE Allowed

(***************************************************************************)
(* The earlier draft: evaluate_reversal and its helpers.                   *)
(***************************************************************************)
is_neuromorph_evolution_downgrade(from, to) == to < from

consent_ok(consent) == consent \in {"Minimal", "Extended"}

\* CapabilityTransitionRequest::evaluate of alncore, the baseline engine the
\* draft delegates non-downgrades to; alncore is not among the sources, so
\* it is the state machine's validation turned into a Decision.
base_evaluate(c) ==
    LET v == validate(c)
    IN  IF v = "Ok" THEN Allowed
        ELSE IF v = "ErrEvidenceRequired" THEN denied("DeniedMissingEvidence")
        ELSE IF v = "ErrConsentNone" THEN denied("DeniedInsufficientConsent")
        ELSE IF v = "ErrPolicyStack" THEN denied("DeniedPolicyStackFailure")
        ELSE denied("DeniedUnknown")

evaluate_reversal(c) ==
    IF ~is_neuromorph_evolution_downgrade(c.from, c.to) THEN base_evaluate(c)
    ELSE IF ~all_pass(c.policystack) THEN denied("DeniedPolicyStackFailure")
    ELSE IF ~consent_ok(c.required_consent)
        THEN IF c.required_consent = "Revoked" THEN denied("DeniedConsentRevoked")
             ELSE denied("DeniedInsufficientConsent")
    ELSE IF c.roh_after > c.roh_before THEN denied("DeniedRoHInvariantViolation")
    ELSE IF c.from \in {ControlledHuman, GeneralUse} /\ c.roh_after > RoHCeiling
        THEN denied("DeniedRoHInvariantViolation")
    ELSE IF ~c.reversal_flags.allow_neuromorph_reversal
        THEN denied("DeniedReversalNotAllowedInTier")
    ELSE IF ~neuromorph_god_satisfied(c.roles, c.reversal_flags.required_regulator_quorum)
        THEN denied("DeniedIllegalDowngradeByNonRegulator")
    ELSE IF ~c.envelope_ctx.requires_downgrade
        THEN denied("DeniedNoSaferAlternativeNotProved")
    ELSE IF ~c.envelope_ctx.request_capability_downgrade
        THEN denied("DeniedNoSaferAlternativeNotProved")
    ELSE IF ~c.reversal_flags.explicit_reversal_order \/ ~c.nosaferalternative
        THEN denied("DeniedNoSaferAlternativeNotProved")
    ELSE Allowed

(***************************************************************************)
(* Inputs.  A request is one record holding what the callers pass: the     *)
(* ReversalContext of the kernel, the transition request the state machine *)
(* validates, and whether the call comes from a diagnostic/advisory        *)
(* evaluation (is_diag_event: a fact about the caller; ReversalContext     *)
(* has no such field, so no evaluator can read it).                        *)
(***************************************************************************)
\* Largest number of Regulator entries in a role list.
MaxRegulators == 257

RoHValues == {10, 28, 30, 40, 50}

QuorumValues == {0, 1, 2, 3, 255}

Roles(host, owner, kernel, regulators) ==
    [Host |-> host, OrganicCpuOwner |-> owner, SovereignKernel |-> kernel,
     Regulator |-> regulators]

RoleSetValues == {Roles(1, 1, 1, 2), Roles(1, 1, 1, 1), Roles(0, 1, 1, 2)}

\* PolicyStack::new() leaves juris_local empty.
PolicyStackNew ==
    [base_medical |-> {"Fda", "EuMdr"},
     base_engineering |-> {"IsoIec60601_1", "IsoIec60601_1_2", "IsoIec60601_2_57"},
     juris_local |-> {},
     quantum_ai_safety |-> {"QuantumAiSafety"}]

PolicyStackFull == [PolicyStackNew EXCEPT !.juris_local = {"JurisLocal"}]

PolicyStackNoMedical == [PolicyStackFull EXCEPT !.base_medical = {}]

Flags(allow, order, quorum) ==
    [allow_neuromorph_reversal |-> allow, explicit_reversal_order |-> order,
     required_regulator_quorum |-> quorum]

Envelope(requires, request, balance) ==
    [requires_downgrade |-> requires, request_capability_downgrade |-> request,
     balance_maintained |-> balance]

\* Requests that exercise the guard chain.
KernelInputs ==
    [from : CapabilityState, to : CapabilityState,
     roh_before : RoHValues \ {30}, roh_after : RoHValues \ {30},
     roles : RoleSetValues,
     reversal_flags : {Flags(a, o, 2) : a \in BOOLEAN, o \in BOOLEAN},
     policystack : {PolicyStackFull, PolicyStackNoMedical},
     envelope_ctx : {Envelope(TRUE, r, TRUE) : r \in BOOLEAN},
     nosaferalternative : BOOLEAN,
     is_diag_event : BOOLEAN,
     required_evidence : {{"cid:QmZ4"}},
     required_consent : {"Minimal"},
     required_roles : {{"Teacher"}}]

\* Requests that exercise the RoH guards on the downgrades out of the
\* human-coupled tiers, boundary value included, and the draft's extra guards.
RoHInputs ==
    [from : {ControlledHuman, GeneralUse}, to : {LabBench},
     roh_before : RoHValues, roh_after : RoHValues,
     roles : {Roles(1, 1, 1, 2)},
     reversal_flags : {Flags(a, TRUE, 2) : a \in BOOLEAN},
     policystack : {PolicyStackFull, PolicyStackNew},
     envelope_ctx : {Envelope(q, TRUE, TRUE) : q \in BOOLEAN},
     nosaferalternative : {TRUE},
     is_diag_event : {FALSE},
     required_evidence : {{"cid:QmZ4"}},
     required_consent : ConsentState,
     required_roles : {{"Teacher"}}]

\* Requests that exercise the state machine's side constraints.
DelegationInputs ==
    [from : CapabilityState, to : CapabilityState,
     roh_before : {28}, roh_after : {10},
     roles : {Roles(1, 1, 1, 2)},
     reversal_flags : {Flags(TRUE, TRUE, 2)},
     policystack : {PolicyStackFull, PolicyStackNew, PolicyStackNoMedical},
     envelope_ctx : {Envelope(TRUE, TRUE, TRUE)},
     nosaferalternative : {TRUE},
     is_diag_event : {FALSE},
     required_evidence : {{}, {"cid:QmZ4"}},
     required_consent : ConsentState,
     required_roles : {{}, {"Teacher"}}]

\* Requests that exercise the sovereignty composite: role lists of every
\* size up to MaxRegulators regulators, otherwise scenario A.
RoleInputs ==
    [from : {ControlledHuman}, to : {LabBench},
     roh_before : {28}, roh_after : {10},
     roles : {Roles(h, o, k, r) : h \in 0..1, o \in 0..1, k \in 0..1,
                                  r \in 0..MaxRegulators},
     reversal_flags : {Flags(TRUE, TRUE, q) : q \in QuorumValues},
     policystack : {PolicyStackFull},
     envelope_ctx : {Envelope(TRUE, TRUE, TRUE)},
     nosaferalternative : {TRUE},
     is_diag_event : {FALSE},
     required_evidence : {{"cid:QmZ4"}},
     required_consent : {"Minimal"},
     required_roles : {{"Teacher"}}]

\* Every combination of empty and non-empty tag sets.
PolicyStackValues ==
    {[base_medical |-> IF m THEN {"Fda"} ELSE {},
      base_engineering |-> IF e THEN {"IsoIec60601_1"} ELSE {},
      juris_local |-> IF l THEN {"JurisLocal"} ELSE {},
      quantum_ai_safety |-> IF q THEN {"QuantumAiSafety"} ELSE {}] :
        m \in BOOLEAN, e \in BOOLEAN, l \in BOOLEAN, q \in BOOLEAN}

\* Requests that exercise the policy stack: otherwise valid transitions.
PolicyInputs ==
    [from : {ModelOnly, LabBench}, to : {ModelOnly, LabBench},
     roh_before : {28}, roh_after : {10},
     roles : {Roles(1, 1, 1, 2)},
     reversal_flags : {Flags(TRUE, TRUE, 2)},
     policystack : PolicyStackValues,
     envelope_ctx : {Envelope(TRUE, TRUE, TRUE)},
     nosaferalternative : {TRUE},
     is_diag_event : {FALSE},
     required_evidence : {{"cid:QmZ4"}},
     required_consent : {"Minimal"},
     required_roles : {{"Teacher"}}]

Inputs ==
    KernelInputs \cup RoHInputs \cup DelegationInputs \cup RoleInputs
        \cup PolicyInputs

\* Scenario A: ControlledHuman -> LabBench, 0.28 -> 0.10, everything in order.
ScenarioA ==
    [from |-> ControlledHuman, to |-> LabBench,
     roh_before |-> 28, roh_after |-> 10,
     roles |-> Roles(1, 1, 1, 2),
     reversal_flags |-> Flags(TRUE, TRUE, 2),
     policystack |-> PolicyStackFull,
     envelope_ctx |-> Envelope(TRUE, TRUE, TRUE),
     nosaferalternative |-> TRUE,
     is_diag_event |-> FALSE,
     required_evidence |-> {"cid:QmZ4"},
     required_consent |-> "Minimal",
     required_roles |-> {"Teacher"}]

\* The threads that call evaluate_and_log on one log file.
Writers == {1, 2}

\* A writer that is not inside a call.
IdleWriter == [pc |-> "idle", view |-> <<>>]

\* No call has been made on a store yet.
NoCall ==
    [op |-> "none", index |-> 0, entry |-> <<>>, result |-> "none",
     before |-> <<>>]

\* Nothing accepted, nothing stored.
StoresEmpty ==
    /\ chain = <<ModelOnly>>
    /\ ledger = <<>>
    /\ fence_log = <<>>
    /\ last_call = NoCall
    /\ transitions = <<>>
    /\ writers = [w \in Writers |-> IdleWriter]
    /\ fragment = <<>>

(***************************************************************************)
(* The state machine: a request is submitted, one of the two kernels       *)
(* decides it, and the capability state machine validates it.  Every       *)
(* evaluation is a pure function of the request.                           *)
(***************************************************************************)
Init ==
    /\ ctx \in Inputs
    /\ pc = "submitted"
    /\ decision = NoDecision
    /\ validation = "NotRun"
    /\ StoresEmpty

\* KernelEvaluator.evaluate_reversal(&ctx)
KernelEvaluate ==
    /\ pc = "submitted"
    /\ decision' = KernelEvaluator_evaluate_reversal(ctx)
    /\ pc' = "kernel_decided"
    /\ UNCHANGED <<ctx, validation>>
    /\ UNCHANGED store_vars

\* evaluate_reversal(&base, rev_flags, roh_before, roh_after, envelopectx, &role_set)
DraftEvaluate ==
    /\ pc = "submitted"
    /\ decision' = evaluate_reversal(ctx)
    /\ pc' = "draft_decided"
    /\ UNCHANGED <<ctx, validation>>
    /\ UNCHANGED store_vars

\* transition.validate()
Validate ==
    /\ validation = "NotRun"
    /\ validation' = validate(ctx)
    /\ UNCHANGED <<ctx, pc, decision>>
    /\ UNCHANGED store_vars

Next == KernelEvaluate \/ DraftEvaluate \/ Validate

Spec == Init /\ [][Next]_vars

(***************************************************************************)
(* Chains of transitions: starting at ModelOnly, a caller submits one      *)
(* transition after another, each leaving the tier the previous one        *)
(* reached, and validate accepts or rejects it.  chain is the sequence of  *)
(* tiers the accepted transitions went through.                            *)
(***************************************************************************)
\* Longest chain of accepted transitions.
MaxChain == 5

\* No request is under evaluation by the kernels.
KernelIdle ==
    /\ ctx = ScenarioA
    /\ pc = "idle"
    /\ decision = NoDecision
    /\ validation = "NotRun"

InitStores == KernelIdle /\ StoresEmpty

\* transition.validate() returned Ok(()) for a transition out of the
\* current tier.
ChainStep ==
    /\ Len(chain) <= MaxChain
    /\ \E t \in DelegationInputs :
          /\ t.from = chain[Len(chain)]
          /\ validate(t) = "Ok"
          /\ chain' = Append(chain, t.to)
    /\ UNCHANGED <<ledger, fence_log, last_call, transitions>>
    /\ UNCHANGED file_vars
    /\ UNCHANGED kernel_vars

NextChain == ChainStep

SpecChain == InitStores /\ [][NextChain]_vars

(***************************************************************************)
(* The hash-chained ledger of smart_guard.rs: a DonutloopLedger holding    *)
(* DonutloopEntry records, oldest first.  Hexstamps are sequences, so that *)
(* a content hash can hold the hexstamp it chains to; a hash is the        *)
(* injective image of the fields it covers.  RoH is an integer number of   *)
(* 1e-7 units here (2800000 is 0.28).                                       *)
(***************************************************************************)
\* Most entries a ledger holds.
MaxLedger == 4

\* The 1e-6 of the rollback's RoH comparison, in 1e-7 units.
RoHTolerance == 10

\* 0.10, 0.28 and 0.28 + 5e-7.
LedgerRoHValues == {1000000, 2800000, 2800005}

SubjectIds == {"subjA", "subjB"}

Timestamps == {"t1", "t2"}

\* The sentinel the first entry chains to.
GenesisHexstamp == <<"GENESIS">>

\* A hexstamp that is no entry's.
StaleHexstamp == <<"0xSTALE">>

\* The content hash of an entry: its fields without hexstamp, chained to its
\* prev_hexstamp.
entry_hash(e) ==
    <<"0xDONUT", e.prev_hexstamp, e.entry_id, e.subject_id, e.proposal_id,
      e.change_type, e.tsafe_mode, e.roh_before, e.roh_after, e.timestamp_utc>>

DonutloopEntry(entry_id, subject_id, proposal_id, change_type, tsafe_mode, roh_before, roh_after, hexstamp, timestamp_utc, prev_hexstamp) ==
    [entry_id |-> entry_id, subject_id |-> subject_id,
     proposal_id |-> proposal_id, change_type |-> change_type,
     tsafe_mode |-> tsafe_mode, roh_before |-> roh_before,
     roh_after |-> roh_after, hexstamp |-> hexstamp,
     timestamp_utc |-> timestamp_utc, prev_hexstamp |-> prev_hexstamp]

\* The placeholder where a call produced no entry.
NoEntry ==
    DonutloopEntry("none", "none", <<>>, <<>>, "none", 0, 0, <<>>, "none", <<>>)

\* The hexstamp a new entry has to chain to.
tail_hexstamp(l) == IF l = <<>> THEN GenesisHexstamp ELSE l[Len(l)].hexstamp

\* DonutloopLedger::append: the entry is stored at the end if it chains to
\* the current tail, and rejected otherwise.
DonutloopLedger_append(l, e) ==
    IF e.prev_hexstamp = tail_hexstamp(l)
    THEN [result |-> "Ok", ledger |-> Append(l, e)]
    ELSE [result |-> "ErrChainLinkage", ledger |-> l]

\* The entry synthesize_smart_rollback_entry builds.
rollback_entry(offending_entry, last_safe_entry, new_entry_id, new_hexstamp, now) ==
    DonutloopEntry(new_entry_id,
                   offending_entry.subject_id,
                   <<"rollback-">> \o offending_entry.proposal_id,
                   <<"rollback-">> \o offending_entry.change_type,
                   "Observe",
                   offending_entry.roh_after,
                   last_safe_entry.roh_after,
                   new_hexstamp,
                   now,
                   offending_entry.hexstamp)

\* synthesize_smart_rollback_entry without the subject_id comparison.
synthesize_any_subject(offending_entry, last_safe_entry, new_entry_id, new_hexstamp, now) ==
    IF last_safe_entry.roh_after > offending_entry.roh_after + RoHTolerance
    THEN [result |-> "ErrNothingToRollBack", entry |-> NoEntry]
    ELSE [result |-> "Ok",
          entry |-> rollback_entry(offending_entry, last_safe_entry,
                                   new_entry_id, new_hexstamp, now)]

\* synthesize_smart_rollback_entry without the RoH comparison.
synthesize_any_roh(offending_entry, last_safe_entry, new_entry_id, new_hexstamp, now) ==
    IF offending_entry.subject_id # last_safe_entry.subject_id
    THEN [result |-> "ErrSubjectMismatch", entry |-> NoEntry]
    ELSE [result |-> "Ok",
          entry |-> rollback_entry(offending_entry, last_safe_entry,
                                   new_entry_id, new_hexstamp, now)]

\* synthesize_smart_rollback_entry; now is the clock reading it takes.
synthesize_smart_rollback_entry(offending_entry, last_safe_entry, new_entry_id, new_hexstamp, now) ==
    IF offending_entry.subject_id # last_safe_entry.subject_id
    THEN [result |-> "ErrSubjectMismatch", entry |-> NoEntry]
    ELSE IF last_safe_entry.roh_after > offending_entry.roh_after + RoHTolerance
    THEN [result |-> "ErrNothingToRollBack", entry |-> NoEntry]
    ELSE [result |-> "Ok",
          entry |-> rollback_entry(offending_entry, last_safe_entry,
                                   new_entry_id, new_hexstamp, now)]

\* append_rollback_to_ledger that reports the ledger's error after the
\* entry has been stored.
append_rollback_stores_first(l, e) ==
    [result |-> DonutloopLedger_append(l, e).result, ledger |-> Append(l, e)]

\* append_rollback_to_ledger that pushes the entry without going through
\* the ledger's append.
append_rollback_pushes(l, e) == [result |-> "Ok", ledger |-> Append(l, e)]

\* append_rollback_to_ledger: ledger.append(rollback_entry)?
append_rollback_to_ledger(l, e) == DonutloopLedger_append(l, e)

\* rollback_smart_violation that puts the rollback in the offending
\* entry's place.
rollback_rewrites_offending(l, ledger_tail_index, new_entry_id, new_hexstamp, now) ==
    IF ledger_tail_index = 0 \/ ledger_tail_index >= Len(l)
    THEN [result |-> "ErrInvalidIndex", ledger |-> l, synth |-> NoEntry]
    ELSE LET rollback ==
                 synthesize_smart_rollback_entry(l[ledger_tail_index + 1],
                                                 l[ledger_tail_index],
                                                 new_entry_id, new_hexstamp, now)
         IN  IF rollback.result # "Ok"
             THEN [result |-> rollback.result, ledger |-> l, synth |-> NoEntry]
             ELSE [result |-> "Ok",
                   ledger |-> [l EXCEPT ![ledger_tail_index + 1] = rollback.entry],
                   synth |-> rollback.entry]

\* rollback_smart_violation: entries[ledger_tail_index] is l[ledger_tail_index + 1].
rollback_smart_violation(l, ledger_tail_index, new_entry_id, new_hexstamp, now) ==
    IF ledger_tail_index = 0 \/ ledger_tail_index >= Len(l)
    THEN [result |-> "ErrInvalidIndex", ledger |-> l, synth |-> NoEntry]
    ELSE LET rollback ==
                 synthesize_smart_rollback_entry(l[ledger_tail_index + 1],
                                                 l[ledger_tail_index],
                                                 new_entry_id, new_hexstamp, now)
         IN  IF rollback.result # "Ok"
             THEN [result |-> rollback.result, ledger |-> l, synth |-> NoEntry]
             ELSE LET appended == append_rollback_to_ledger(l, rollback.entry)
                  IN  [result |-> appended.result, ledger |-> appended.ledger,
                       synth |-> rollback.entry]

\* The record of a call on a store: what was called, with which index and
\* entry, what it returned and what the store held before.
Call(op, index, entry, result, before) ==
    [op |-> op, index |-> index, entry |-> entry, result |-> result,
     before |-> before]

\* An ordinary entry a caller submits: hashed over its content, chained to
\* prev.
OrdinaryEntry(subject_id, roh_before, roh_after, prev) ==
    LET unstamped ==
            DonutloopEntry("entry", subject_id, <<"proposal">>, <<"smart">>,
                           "Normal", roh_before, roh_after, <<>>, "t1", prev)
    IN  [unstamped EXCEPT !.hexstamp = entry_hash(unstamped)]

\* A caller appends an ordinary entry; it chains to the tail or to a
\* hexstamp that is not the tail's.
LedgerAppend ==
    /\ Len(ledger) < MaxLedger
    /\ \E subject_id \in SubjectIds, roh_after \in LedgerRoHValues,
          prev \in {tail_hexstamp(ledger), StaleHexstamp} :
          LET e == OrdinaryEntry(subject_id,
                                 IF ledger = <<>> THEN 2800000
                                 ELSE ledger[Len(ledger)].roh_after,
                                 roh_after, prev)
              appended == DonutloopLedger_append(ledger, e)
          IN  /\ ledger' = appended.ledger
              /\ last_call' = Call("append", 0, e, appended.result, ledger)
    /\ UNCHANGED <<chain, fence_log, transitions>>
    /\ UNCHANGED file_vars
    /\ UNCHANGED kernel_vars

\* The new_hexstamp values a caller passes: a stamp of its own making, or
\* the content hash of the entry it expects, computed with its own guess of
\* the time the entry will carry.
NewHexstamps(l, ledger_tail_index, new_entry_id) ==
    {<<"0xROLLBACK">>}
        \cup (IF ledger_tail_index = 0 \/ ledger_tail_index >= Len(l)
              THEN {}
              ELSE {entry_hash(rollback_entry(l[ledger_tail_index + 1],
                                              l[ledger_tail_index],
                                              new_entry_id, <<>>, guess)) :
                        guess \in {"t1"}})

\* rollback_smart_violation(&mut ledger, ledger_tail_index, new_entry_id,
\* new_hexstamp)
RollbackSmartViolation ==
    /\ Len(ledger) < MaxLedger
    /\ \E ledger_tail_index \in 0..MaxLedger, now \in Timestamps :
       \E new_hexstamp \in NewHexstamps(ledger, ledger_tail_index, "rollback") :
          LET call == rollback_smart_violation(ledger, ledger_tail_index,
                                               "rollback", new_hexstamp, now)
          IN  /\ ledger' = call.ledger
              /\ last_call' = Call("rollback", ledger_tail_index, call.synth,
                                   call.result, ledger)
    /\ UNCHANGED <<chain, fence_log, transitions>>
    /\ UNCHANGED file_vars
    /\ UNCHANGED kernel_vars

NextLedger == LedgerAppend \/ RollbackSmartViolation

SpecLedger == InitStores /\ [][NextLedger]_vars

(***************************************************************************)
(* The HiveMind fence log: a JSONL file of HiveMindFenceView records that  *)
(* evaluate_and_log stamps and append_hivemind_fence_view writes.  A view  *)
(* is modelled by its identity and its two hexstamps; fence_log is the     *)
(* sequence of lines in the file.                                          *)
(***************************************************************************)
\* Most lines the log holds.
MaxLog == 3

\* HiveMindFenceLogConfig.genesis_hexstamp
genesis_hexstamp == <<"0xHMFENCE_GENESIS">>

HiveMindFenceView(view_id, subject_id, prev_hexstamp, hexstamp) ==
    [view_id |-> view_id, subject_id |-> subject_id,
     prev_hexstamp |-> prev_hexstamp, hexstamp |-> hexstamp]

\* compute_hexstamp: the hash of prev_hexstamp and of the view serialized
\* with its hexstamp cleared.
compute_hexstamp(view) ==
    <<"0xHMFENCE", view.prev_hexstamp, view.view_id, view.subject_id,
      view.prev_hexstamp>>

\* The hexstamp the next line of the log has to chain to.
log_tail_hexstamp(log) ==
    IF log = <<>> THEN genesis_hexstamp ELSE log[Len(log)].hexstamp

\* append_hivemind_fence_view: open the file for appending, serialize the
\* view, write the line.  io is what the file system does.
append_hivemind_fence_view(log, view, io) ==
    IF io = "open_fails" THEN [result |-> "IoError", log |-> log]
    ELSE [result |-> "Ok", log |-> Append(log, view)]

\* evaluate_and_log: build the view from the input, stamp it, append it.
evaluate_and_log(log, view_id, subject_id, prev_hexstamp, io) ==
    LET unstamped == HiveMindFenceView(view_id, subject_id, prev_hexstamp, <<>>)
        view == [unstamped EXCEPT !.hexstamp = compute_hexstamp(unstamped)]
        appended == append_hivemind_fence_view(log, view, io)
    IN  [result |-> appended.result, log |-> appended.log, view |-> view]

\* HiveMindFence::evaluate_and_log(&input): the caller passes the hexstamp
\* it believes to be the last one.
EvaluateAndLog ==
    /\ Len(fence_log) < MaxLog
    /\ \E subject_id \in SubjectIds, io \in {"ok", "open_fails"},
          prev_hexstamp \in {log_tail_hexstamp(fence_log), genesis_hexstamp,
                             StaleHexstamp} :
          LET call == evaluate_and_log(fence_log, "view", subject_id,
                                       prev_hexstamp, io)
          IN  /\ fence_log' = call.log
              /\ last_call' = Call("fence_append", 0, call.view, call.result,
                                   fence_log)
    /\ UNCHANGED <<chain, ledger, transitions>>
    /\ UNCHANGED file_vars
    /\ UNCHANGED kernel_vars

NextFenceLog == EvaluateAndLog

(***************************************************************************)
(* The SMART token guard of smart_guard.rs.  Effect sizes are integer      *)
(* numbers of 1e-7 units (5000000 is 0.5); an Option is a sequence of at   *)
(* most one element.                                                       *)
(***************************************************************************)
\* The 1e-6 of the effect-size comparison, in 1e-7 units.
EffectTolerance == 10

\* 0.5, 0.5 + 5e-7 and 0.5 + 2e-6.
EffectSizes == {5000000, 5000005, 5000020}

SmartGuardAllowed == [kind |-> "Allowed", msg |-> ""]

Rejected(msg) == [kind |-> "Rejected", msg |-> msg]

\* The index holds one policy, for token tok1 of subject subjA in scope
\* scopeA, bounding the effect size by 0.5.
SmartPolicyIndex(requires_consent_state) ==
    [token_id \in {"tok1"} |->
        [token_id |-> token_id, subject_id |-> "subjA", scope |-> "scopeA",
         max_effect_size_l2 |-> 5000000,
         requires_consent_state |-> requires_consent_state]]

\* The match on (required, present) consent depth.
consent_depth_sufficient(required, present) ==
    <<required, present>> \in {<<"ConsentMinimal", "ConsentMinimal">>,
                               <<"ConsentMinimal", "ConsentExtended">>,
                               <<"ConsentExtended", "ConsentExtended">>}

\* evaluate_smart_and_consent with the revoked test lost.
evaluate_smart_ignoring_revoked(proposal, smart_policies, resolved) ==
    IF proposal.token_kind # "SMART" THEN SmartGuardAllowed
    ELSE IF proposal.token_id = <<>> THEN Rejected("missing token_id")
    ELSE IF proposal.token_id[1] \notin DOMAIN smart_policies
    THEN Rejected("unknown token_id")
    ELSE LET policy == smart_policies[proposal.token_id[1]]
         IN  IF policy.scope # proposal.scope THEN Rejected("scope mismatch")
             ELSE IF policy.subject_id # proposal.subject_id
             THEN Rejected("subject mismatch")
             ELSE IF proposal.l2_delta_norm
                        > policy.max_effect_size_l2 + EffectTolerance
             THEN Rejected("effect size exceeds max_effect_size_l2")
             ELSE IF ~resolved.ok THEN Rejected("failed to resolve consent")
             ELSE IF ~consent_depth_sufficient(policy.requires_consent_state,
                                               resolved.consent_state)
             THEN Rejected("requires ConsentExtended")
             ELSE SmartGuardAllowed

\* evaluate_smart_and_consent; resolved is what the ConsentResolver returns
\* for the proposal's subject and scope.
evaluate_smart_and_consent(proposal, smart_policies, resolved) ==
    IF proposal.token_kind # "SMART" THEN SmartGuardAllowed
    ELSE IF proposal.token_id = <<>> THEN Rejected("missing token_id")
    ELSE IF proposal.token_id[1] \notin DOMAIN smart_policies
    THEN Rejected("unknown token_id")
    ELSE LET policy == smart_policies[proposal.token_id[1]]
         IN  IF policy.scope # proposal.scope THEN Rejected("scope mismatch")
             ELSE IF policy.subject_id # proposal.subject_id
             THEN Rejected("subject mismatch")
             ELSE IF proposal.l2_delta_norm
                        > policy.max_effect_size_l2 + EffectTolerance
             THEN Rejected("effect size exceeds max_effect_size_l2")
             ELSE IF ~resolved.ok THEN Rejected("failed to resolve consent")
             ELSE IF resolved.revoked THEN Rejected("consent revoked")
             ELSE IF ~consent_depth_sufficient(policy.requires_consent_state,
                                               resolved.consent_state)
             THEN Rejected("requires ConsentExtended")
             ELSE SmartGuardAllowed

\* The proposals, policy indexes and consent resolutions the guard is
\* called with.
SmartInputs ==
    [proposal : [token_kind : {"SMART", "EVOLVE"},
                 token_id : {<<>>, <<"tok1">>, <<"tok9">>},
                 scope : {"scopeA", "scopeB"},
                 subject_id : SubjectIds,
                 l2_delta_norm : EffectSizes],
     smart_policies : {SmartPolicyIndex(required) :
                          required \in {"ConsentMinimal", "ConsentExtended"}},
     resolved : [ok : BOOLEAN,
                 consent_state : {"ConsentMinimal", "ConsentExtended"},
                 revoked : BOOLEAN]]

InitSmart ==
    /\ ctx \in SmartInputs
    /\ pc = "submitted"
    /\ decision = NoDecision
    /\ validation = "NotRun"
    /\ StoresEmpty

\* evaluate_smart_and_consent(&proposal, &smart_policies, &consent_resolver)
SmartEvaluate ==
    /\ pc = "submitted"
    /\ decision' = evaluate_smart_and_consent(ctx.proposal, ctx.smart_policies,
                                              ctx.resolved)
    /\ pc' = "smart_decided"
    /\ UNCHANGED <<ctx, validation>>
    /\ UNCHANGED store_vars

NextSmart == SmartEvaluate

SpecSmart == InitSmart /\ [][NextSmart]_vars

(***************************************************************************)
(* ALNPolicy: the list of transitions add_transition fills, and the        *)
(* action check is_action_permitted.  An action label is a sequence of     *)
(* letters.                                                                *)
(***************************************************************************)
\* Most transitions a policy holds.
MaxTransitions == 2

\* Longest action label.
MaxLabel == 3

Letters == {"a", "A", "b"}

ActionLabels == UNION {[1..n -> Letters] : n \in 0..MaxLabel}

\* ALNPolicy.prohibited_harms
prohibited_harms == {<<"A", "b">>}

\* char::to_lowercase on the letters
lower(ch) == IF ch = "A" THEN "a" ELSE IF ch = "B" THEN "b" ELSE ch

\* str::to_lowercase
to_lowercase(label) == [i \in DOMAIN label |-> lower(label[i])]

\* str::contains
contains(haystack, needle) ==
    \E i \in 0..(Len(haystack) - Len(needle)) :
        SubSeq(haystack, i + 1, i + Len(needle)) = needle

\* is_action_permitted with the ModelOnly arm ahead of the prohibitions.
is_action_permitted_model_first(current_state, consent, roles, action_label) ==
    IF current_state = ModelOnly THEN TRUE
    ELSE IF \E h \in prohibited_harms :
                contains(to_lowercase(action_label), to_lowercase(h))
    THEN FALSE
    ELSE IF consent = "None" \/ consent = "Revoked" THEN FALSE
    ELSE IF roles = {} THEN FALSE
    ELSE TRUE

\* ALNPolicy::is_action_permitted
is_action_permitted(current_state, consent, roles, action_label) ==
    IF \E h \in prohibited_harms :
            contains(to_lowercase(action_label), to_lowercase(h))
    THEN FALSE
    ELSE IF current_state = ModelOnly THEN TRUE
    ELSE IF consent = "None" \/ consent = "Revoked" THEN FALSE
    ELSE IF roles = {} THEN FALSE
    ELSE TRUE

\* add_transition that pushes before it validates.
add_transition_pushes_first(list, transition) ==
    [result |-> validate(transition), transitions |-> Append(list, transition)]

\* ALNPolicy::add_transition: transition.validate()?, then push.
add_transition(list, transition) ==
    IF validate(transition) # "Ok"
    THEN [result |-> validate(transition), transitions |-> list]
    ELSE [result |-> "Ok", transitions |-> Append(list, transition)]

\* The transitions callers submit: valid ones and ones each check refuses.
TransitionInputs ==
    {[ScenarioA EXCEPT !.from = from, !.to = to,
                       !.required_evidence = evidence,
                       !.required_consent = consent,
                       !.required_roles = roles,
                       !.policystack = policystack] :
        from \in {ModelOnly, LabBench}, to \in {LabBench, ControlledHuman},
        evidence \in {{}, {"cid:QmZ4"}}, consent \in {"None", "Minimal"},
        roles \in {{}, {"Teacher"}},
        policystack \in {PolicyStackNew, PolicyStackNoMedical}}

\* policy.add_transition(transition)
AddTransition ==
    /\ Len(transitions) < MaxTransitions
    /\ \E transition \in TransitionInputs :
          LET call == add_transition(transitions, transition)
          IN  /\ transitions' = call.transitions
              /\ last_call' = Call("add_transition", 0, transition, call.result,
                                   transitions)
    /\ UNCHANGED <<chain, ledger, fence_log>>
    /\ UNCHANGED file_vars
    /\ UNCHANGED kernel_vars

\* policy.is_action_permitted(current_state, consent, &roles, action_label)
IsActionPermitted ==
    /\ \E current_state \in {ModelOnly, ControlledHuman}, consent \in ConsentState,
          roles \in {{}, {"Learner"}}, action_label \in ActionLabels :
          last_call' =
              Call("is_action_permitted", 0,
                   [current_state |-> current_state, consent |-> consent,
                    roles |-> roles, action_label |-> action_label],
                   is_action_permitted(current_state, consent, roles, action_label),
                   transitions)
    /\ UNCHANGED <<chain, ledger, fence_log, transitions>>
    /\ UNCHANGED file_vars
    /\ UNCHANGED kernel_vars

NextPolicy == AddTransition

\* A policy being filled with transitions.
SpecPolicy == InitStores /\ [][NextPolicy]_vars

NextAction == IsActionPermitted

\* A policy being asked about actions.
SpecAction == InitStores /\ [][NextAction]_vars

SpecFenceLog == InitStores /\ [][NextFenceLog]_vars

(***************************************************************************)
(* Concurrent writers of the fence log.  Nothing in evaluate_and_log or    *)
(* append_hivemind_fence_view takes a lock, so two calls interleave at     *)
(* their file-system steps: a caller reads the last hexstamp and the call  *)
(* opens the file and buffers the line (WriterBegin); the BufWriter writes *)
(* its buffer to the file when it is dropped at the end of the call        *)
(* (WriterFlush).  The serialized view is shorter than the BufWriter's     *)
(* buffer, so the line reaches the file in that one flush.  fragment holds *)
(* what the file ends with after its last complete line.                   *)
(***************************************************************************)
\* input.view_id of the calls of writer w.
ViewId(w) == IF w = 1 THEN "view1" ELSE "view2"

\* The view evaluate_and_log hands to append_hivemind_fence_view.
stamped_view(view_id, subject_id, prev_hexstamp) ==
    LET unstamped == HiveMindFenceView(view_id, subject_id, prev_hexstamp, <<>>)
    IN  [unstamped EXCEPT !.hexstamp = compute_hexstamp(unstamped)]

\* What the dropped BufWriter leaves in the file: the whole line, the
\* first bytes of it, or nothing; the error of a failed flush is discarded.
\* A line written behind a fragment is part of that broken line.
flush_on_drop(log, frag, view, outcome) ==
    IF outcome = "lost" THEN [log |-> log, fragment |-> frag]
    ELSE IF outcome = "short_write" \/ frag # <<>>
    THEN [log |-> log, fragment |-> Append(frag, view)]
    ELSE [log |-> Append(log, view), fragment |-> frag]

\* The calls that have buffered a line and not yet flushed it.
InFlight == {w \in Writers : writers[w].pc = "buffered"}

\* Writer w reads the last hexstamp and calls evaluate_and_log; the file
\* opens, or the call returns IoError.
WriterBegin(w) ==
    /\ writers[w].pc = "idle"
    /\ Len(fence_log) + Len(fragment) + Cardinality(InFlight) < MaxLog
    /\ \E subject_id \in SubjectIds, io \in {"ok", "open_fails"} :
          LET view == stamped_view(ViewId(w), subject_id,
                                   log_tail_hexstamp(fence_log))
          IN  IF io = "open_fails"
              THEN /\ last_call' = Call("fence_append", w, view, "IoError", fence_log)
                   /\ UNCHANGED writers
              ELSE /\ writers' = [writers EXCEPT ![w] = [pc |-> "buffered",
                                                         view |-> view]]
                   /\ UNCHANGED last_call
    /\ UNCHANGED <<chain, ledger, fence_log, transitions, fragment>>
    /\ UNCHANGED kernel_vars

\* The call of writer w returns Ok(()) and its BufWriter is dropped.
WriterFlush(w) ==
    /\ writers[w].pc = "buffered"
    /\ \E outcome \in {"written", "short_write", "lost"} :
          LET file == flush_on_drop(fence_log, fragment, writers[w].view, outcome)
          IN  /\ fence_log' = file.log
              /\ fragment' = file.fragment
    /\ last_call' = Call("fence_append", w, writers[w].view, "Ok", fence_log)
    /\ writers' = [writers EXCEPT ![w] = IdleWriter]
    /\ UNCHANGED <<chain, ledger, transitions>>
    /\ UNCHANGED kernel_vars

NextFenceWriters == \E w \in Writers : WriterBegin(w) \/ WriterFlush(w)

SpecFenceWriters == InitStores /\ [][NextFenceWriters]_vars

(***************************************************************************)
(* The kernel among other work: one request is evaluated again and again   *)
(* by KernelEvaluator while callers append to the ledger.                  *)
(***************************************************************************)
\* Scenario A and its neighbours: the flag, the envelope request and the
\* target tier vary.
RepeatedInputs ==
    {[ScenarioA EXCEPT !.to = to,
                       !.reversal_flags = Flags(allow, TRUE, 2),
                       !.envelope_ctx = Envelope(TRUE, request, TRUE)] :
        to \in {LabBench, GeneralUse}, allow \in BOOLEAN, request \in BOOLEAN}

InitRepeated ==
    /\ ctx \in RepeatedInputs
    /\ pc = "submitted"
    /\ decision = NoDecision
    /\ validation = "NotRun"
    /\ StoresEmpty

\* KernelEvaluator.evaluate_reversal(&ctx), called again on the same context.
KernelReevaluate ==
    /\ pc \in {"kernel_decided", "kernel_redecided"}
    /\ decision' = KernelEvaluator_evaluate_reversal(ctx)
    /\ pc' = "kernel_redecided"
    /\ UNCHANGED <<ctx, validation>>
    /\ UNCHANGED store_vars

NextRepeated == KernelEvaluate \/ KernelReevaluate \/ LedgerAppend

SpecRepeated == InitRepeated /\ [][NextRepeated]_vars

(***************************************************************************)
(* The notions the properties are stated in.                               *)
(***************************************************************************)
\* A downgrade: the target tier index is strictly below the source's.
Downgrade(c) == c.to < c.from

HumanCoupled(c) == c.from \in {ControlledHuman, GeneralUse}

\* The risk invariant: never above the ceiling, never above the value before.
RiskInvariantHolds(c) == c.roh_after <= RoHCeiling /\ c.roh_after <= c.roh_before

\* The sovereignty composite over the role multiset, counted without width.
SovereigntyComposite(roles, quorum) ==
    /\ roles["Host"] >= 1
    /\ roles["OrganicCpuOwner"] >= 1
    /\ roles["SovereignKernel"] >= 1
    /\ roles["Regulator"] >= quorum

\* The seven guards of the chain, in order, and the reason of each.
GuardFails(i, c) ==
    CASE i = 1 -> c.is_diag_event
      [] i = 2 -> HumanCoupled(c) /\ ~RiskInvariantHolds(c)
      [] i = 3 -> ~c.reversal_flags.allow_neuromorph_reversal
      [] i = 4 -> ~SovereigntyComposite(c.roles, c.reversal_flags.required_regulator_quorum)
      [] i = 5 -> ~c.reversal_flags.explicit_reversal_order \/ ~c.nosaferalternative
      [] i = 6 -> \E g \in {"base_medical", "base_engineering", "juris_local",
                            "quantum_ai_safety"} : c.policystack[g] = {}
      [] i = 7 -> ~c.envelope_ctx.request_capability_downgrade

GuardReason(i) ==
    CASE i = 1 -> "DeniedIllegalDowngradeByNonRegulator"
      [] i = 2 -> "DeniedRoHViolation"
      [] i = 3 -> "DeniedReversalNotAllowedInTier"
      [] i = 4 -> "DeniedIllegalDowngradeByNonRegulator"
      [] i = 5 -> "DeniedNoSaferAlternativeNotProved"
      [] i = 6 -> "DeniedPolicyStackFailure"
      [] i = 7 -> "DeniedIllegalDowngradeByNonRegulator"

FailingGuards(c) == {i \in 1..7 : GuardFails(i, c)}

FirstFailingGuard(c) ==
    CHOOSE i \in FailingGuards(c) : \A j \in FailingGuards(c) : i <= j

KernelDecided == pc = "kernel_decided"

DraftDecided == pc = "draft_decided"

(***************************************************************************)
(* C1  Default-deny                                                        *)
(***************************************************************************)
\* C1 as stated: every downgrade request with allow_neuromorph_reversal false
\* is Denied by the kernel with reason DeniedReversalNotAllowedInTier,
\* whatever the other inputs are.
C1_DefaultDenyAsStated ==
    (KernelDecided /\ Downgrade(ctx) /\ ~ctx.reversal_flags.allow_neuromorph_reversal)
        => decision = denied("DeniedReversalNotAllowedInTier")

\* C1 as amended: with allow_neuromorph_reversal false, every downgrade out of
\* ControlledHuman or GeneralUse is Denied by the kernel, whatever the other
\* inputs are; the reason is DeniedReversalNotAllowedInTier unless the RoH
\* guard, which runs first, has already denied (source ControlledHuman and
\* roh_after above roh_before: DeniedRoHViolation).  The draft kernel denies
\* every downgrade under that flag too.
C1_DefaultDeny ==
    /\ (KernelDecided /\ Downgrade(ctx) /\ HumanCoupled(ctx)
            /\ ~ctx.reversal_flags.allow_neuromorph_reversal)
        => decision =
             denied(IF ctx.from = ControlledHuman /\ ctx.roh_after > ctx.roh_before
                    THEN "DeniedRoHViolation"
                    ELSE "DeniedReversalNotAllowedInTier")
    /\ (DraftDecided /\ Downgrade(ctx) /\ ~ctx.reversal_flags.allow_neuromorph_reversal)
        => ~decision.allowed

\* Scenario B: ControlledHuman -> LabBench, 0.28 -> 0.10, flag off, all else
\* in order, decided by the kernel.
C1_Witness ==
    /\ KernelDecided
    /\ ctx.from = ControlledHuman /\ ctx.to = LabBench
    /\ ctx.roh_before = 28 /\ ctx.roh_after = 10
    /\ ~ctx.reversal_flags.allow_neuromorph_reversal
    /\ FailingGuards(ctx) = {3}
    /\ decision = denied("DeniedReversalNotAllowedInTier")

(***************************************************************************)
(* C2  No downgrade is Allowed while the flag is off                       *)
(***************************************************************************)
\* C2: with allow_neuromorph_reversal false, no transition whose target tier
\* is strictly below its source tier (LabBench -> ModelOnly included) is
\* returned as Allowed by the kernel.
C2_NoDowngradeAllowedWhenFlagOff ==
    (KernelDecided /\ Downgrade(ctx) /\ ~ctx.reversal_flags.allow_neuromorph_reversal)
        => ~decision.allowed

(***************************************************************************)
(* C3  Guard ordering                                                      *)
(***************************************************************************)
\* C3: for every downgrade that fails more than one of the seven guards, the
\* kernel reports the reason of the lowest-numbered failing guard.
C3_EarliestGuardWins ==
    (KernelDecided /\ Downgrade(ctx) /\ Cardinality(FailingGuards(ctx)) > 1)
        => decision = denied(GuardReason(FirstFailingGuard(ctx)))

(***************************************************************************)
(* C4  Allowed iff all seven guards pass                                   *)
(***************************************************************************)
\* C4: a downgrade request is Allowed by the kernel if and only if none of
\* the seven guards fails.
C4_AllowedIffAllGuardsPass ==
    (KernelDecided /\ Downgrade(ctx))
        => (decision.allowed <=> FailingGuards(ctx) = {})

(***************************************************************************)
(* C5  Diagnostic isolation                                                *)
(***************************************************************************)
\* C5: every request that comes from a diagnostic evaluation context and
\* asks for a state change (to # from) is Denied by the kernel.
C5_DiagnosticIsolation ==
    (KernelDecided /\ ctx.is_diag_event /\ ctx.to # ctx.from)
        => ~decision.allowed

(***************************************************************************)
(* C6  Monotonicity                                                        *)
(***************************************************************************)
\* C6: every downgrade the kernel returns as Allowed, from any source tier,
\* has roh_after <= roh_before.
C6_AllowedDowngradeNeverRaisesRoH ==
    (KernelDecided /\ Downgrade(ctx) /\ decision.allowed)
        => ctx.roh_after <= ctx.roh_before

(***************************************************************************)
(* C7  Risk ceiling                                                        *)
(***************************************************************************)
\* C7: every downgrade out of ControlledHuman or GeneralUse that the kernel
\* returns as Allowed has roh_after <= 0.30, risk-reducing ones included.
C7_AllowedDowngradeUnderCeiling ==
    (KernelDecided /\ Downgrade(ctx) /\ HumanCoupled(ctx) /\ decision.allowed)
        => ctx.roh_after <= RoHCeiling

(***************************************************************************)
(* C8  The risk-reducing exception needs a strict decrease                 *)
(***************************************************************************)
\* C8: a downgrade with roh_after equal to roh_before is not treated as a
\* capability-and-risk-reducing rollback, so the ordinary risk check still
\* applies to it: out of ControlledHuman with that value above the ceiling
\* the kernel answers DeniedRoHViolation.
C8_UnchangedRiskGetsNoException ==
    (KernelDecided /\ is_neuromorph_downgrade(ctx.from, ctx.to)
            /\ ctx.roh_after = ctx.roh_before)
        => /\ ~reduces_capability_and_roh(ctx)
           /\ (ctx.from = ControlledHuman /\ ctx.roh_after > RoHCeiling)
                => decision = denied("DeniedRoHViolation")

(***************************************************************************)
(* C9  Sovereignty composite                                               *)
(***************************************************************************)
\* C9: for every role multiset and every quorum, neuromorph_god_satisfied is
\* true exactly when Host, OrganicCpuOwner and SovereignKernel each occur and
\* the number of Regulator entries is at least the quorum.  Observed where
\* the draft kernel's evaluation reaches the sovereignty guard, whose reason
\* no other guard of the draft uses.
C9_SovereigntyComposite ==
    (DraftDecided /\ Downgrade(ctx)
        /\ decision.reason \notin {"DeniedPolicyStackFailure", "DeniedConsentRevoked",
                                   "DeniedInsufficientConsent",
                                   "DeniedRoHInvariantViolation",
                                   "DeniedReversalNotAllowedInTier"})
        => /\ (decision.reason # "DeniedIllegalDowngradeByNonRegulator")
                <=> SovereigntyComposite(ctx.roles,
                                         ctx.reversal_flags.required_regulator_quorum)
           /\ neuromorph_god_satisfied(ctx.roles,
                                       ctx.reversal_flags.required_regulator_quorum)
                <=> SovereigntyComposite(ctx.roles,
                                         ctx.reversal_flags.required_regulator_quorum)

(***************************************************************************)
(* C10  Non-downgrade delegation                                           *)
(***************************************************************************)
\* C10: for every request with to >= from the kernel's Decision is allowed
\* exactly when the state machine's validation accepts the transition; in
\* particular ModelOnly -> LabBench is allowed iff the evidence set is
\* non-empty and consent is not None.
C10_NonDowngradeDelegation ==
    /\ (KernelDecided /\ validation # "NotRun" /\ ctx.to >= ctx.from)
        => (decision.allowed <=> validation = "Ok")
    /\ (KernelDecided /\ ctx.from = ModelOnly /\ ctx.to = LabBench)
        => (decision.allowed
                <=> (ctx.required_evidence # {} /\ ctx.required_consent # "None"))

(***************************************************************************)
(* C11  Tier traversal                                                     *)
(***************************************************************************)
\* The first position of a tier in the chain, 0 if it never occurs.
FirstReached(tier) ==
    IF \E i \in 1..Len(chain) : chain[i] = tier
    THEN CHOOSE i \in 1..Len(chain) :
            chain[i] = tier /\ \A j \in 1..(i - 1) : chain[j] # tier
    ELSE 0

\* C11: in every chain of accepted transitions that starts at ModelOnly the
\* tier index rises by at most one per step, so ControlledHuman is never
\* reached before LabBench and GeneralUse never before ControlledHuman.
C11_TierTraversal ==
    /\ chain[1] = ModelOnly
    /\ \A i \in 2..Len(chain) : chain[i] <= chain[i - 1] + 1
    /\ FirstReached(ControlledHuman) # 0
        => (FirstReached(LabBench) # 0
            /\ FirstReached(LabBench) < FirstReached(ControlledHuman))
    /\ FirstReached(GeneralUse) # 0
        => (FirstReached(ControlledHuman) # 0
            /\ FirstReached(ControlledHuman) < FirstReached(GeneralUse))

\* The full climb, one tier per accepted transition.
C11_Witness == chain = <<ModelOnly, LabBench, ControlledHuman, GeneralUse>>

(***************************************************************************)
(* C12  What validate accepts                                              *)
(***************************************************************************)
\* A self-loop, a one-tier step up or any step down.
EdgeLegal(t) == t.to <= t.from + 1

Validated == validation # "NotRun"

\* C12: validate accepts a transition if and only if the edge is a
\* self-loop, a one-tier step up or any step down; the target is ModelOnly
\* or evidence is non-empty and consent is not None; the target is neither
\* ControlledHuman nor GeneralUse or the role set is non-empty; and the
\* policy stack is satisfied (PolicyStack::is_satisfied).  Everything else
\* is an error.
C12_ValidateAcceptsExactly ==
    Validated =>
        /\ validation = "Ok"
            <=> /\ EdgeLegal(ctx)
                /\ (ctx.to = ModelOnly
                    \/ (ctx.required_evidence # {} /\ ctx.required_consent # "None"))
                /\ (ctx.to \notin {ControlledHuman, GeneralUse}
                    \/ ctx.required_roles # {})
                /\ is_satisfied(ctx.policystack)
        /\ validation # "Ok"
            => validation \in {"ErrModelOnlyToControlledHuman",
                               "ErrModelOnlyToGeneralUse", "ErrLabBenchToGeneralUse",
                               "ErrEvidenceRequired", "ErrConsentNone",
                               "ErrRoleRequired", "ErrPolicyStack"}

\* A one-tier step up into ControlledHuman with evidence, Extended consent,
\* a role and PolicyStack::new() has been accepted.
C12_Witness ==
    /\ validation = "Ok"
    /\ ctx.from = LabBench /\ ctx.to = ControlledHuman
    /\ ctx.required_consent = "Extended"
    /\ ctx.policystack = PolicyStackNew

(***************************************************************************)
(* C13  Revoked consent                                                    *)
(***************************************************************************)
\* C13: validate never accepts a transition to a non-ModelOnly target whose
\* consent is Revoked, whatever the evidence, roles and policy stack.
C13_RevokedNeverAccepted ==
    (Validated /\ ctx.to # ModelOnly /\ ctx.required_consent = "Revoked")
        => validation # "Ok"

(***************************************************************************)
(* C14  PolicyStack satisfaction                                           *)
(***************************************************************************)
\* validate got as far as the policy stack.
PolicyStackConsulted == validation \in {"Ok", "ErrPolicyStack"}

\* C14 as stated: the policy stack is satisfied exactly when all four tag
\* sets are non-empty; emptying any one of them makes it unsatisfied.
C14_SatisfiedIffAllFour ==
    PolicyStackConsulted =>
        (validation = "Ok"
            <=> /\ ctx.policystack.base_medical # {}
                /\ ctx.policystack.base_engineering # {}
                /\ ctx.policystack.juris_local # {}
                /\ ctx.policystack.quantum_ai_safety # {})

\* C14 as amended: the policy stack is satisfied exactly when the three
\* mandatory tag sets (base-medical, base-engineering, quantum-ai-safety)
\* are non-empty; emptying any one of these three makes it unsatisfied, and
\* the local set is not consulted.
C14_SatisfiedIffThreeMandatory ==
    PolicyStackConsulted =>
        (validation = "Ok"
            <=> /\ ctx.policystack.base_medical # {}
                /\ ctx.policystack.base_engineering # {}
                /\ ctx.policystack.quantum_ai_safety # {})

\* A stack whose only empty set is quantum-ai-safety has been refused.
C14_Witness ==
    /\ validation = "ErrPolicyStack"
    /\ ctx.policystack.base_medical # {}
    /\ ctx.policystack.base_engineering # {}
    /\ ctx.policystack.juris_local # {}
    /\ ctx.policystack.quantum_ai_safety = {}

(***************************************************************************)
(* C15  Append verifies linkage                                            *)
(***************************************************************************)
\* C15: the append operation rejects (returns an error and writes nothing
\* for) any entry whose prev_hexstamp is not the hexstamp of the current
\* last entry, or the configured genesis sentinel when the log is empty.
C15_AppendVerifiesLinkage ==
    (/\ last_call.op = "fence_append"
     /\ last_call.entry.prev_hexstamp # log_tail_hexstamp(last_call.before))
        => /\ last_call.result # "Ok"
           /\ fence_log = last_call.before

IsRollbackEntry(e) == e.tsafe_mode = "Observe"

IsPrefix(s, t) ==
    /\ Len(s) <= Len(t)
    /\ \A i \in 1..Len(s) : s[i] = t[i]

\* C17: across appends, rollbacks and failed calls the ledger's entry
\* sequence before a step is a prefix of the one after it: no entry is
\* removed, reordered or modified.
C17_AppendOnly == [][IsPrefix(ledger, ledger')]_vars

\* A rollback has been stored: the ledger is what it was with one entry
\* behind it.
C17_Witness ==
    /\ last_call.op = "rollback"
    /\ last_call.result = "Ok"
    /\ ledger = Append(last_call.before, last_call.entry)

(***************************************************************************)
(* C18  Chain integrity round-trip                                         *)
(***************************************************************************)
\* C18: after any number of appended entries, ordinary and rollback entries
\* alike, recomputing each entry's hash from its fields without hexstamp
\* plus its recorded prev_hexstamp reproduces the stored hexstamp.
C18_HashRoundTrip ==
    \A n \in 1..Len(ledger) : entry_hash(ledger[n]) = ledger[n].hexstamp

(***************************************************************************)
(* C19  Rollback safety                                                    *)
(***************************************************************************)
\* The rollback was called with an index that names an offending entry.
RollbackSynthesized ==
    /\ last_call.op = "rollback"
    /\ last_call.index # 0
    /\ last_call.index < Len(last_call.before)

Offending == last_call.before[last_call.index + 1]

LastSafe == last_call.before[last_call.index]

\* C19 as stated: no entry is produced whenever last_safe.roh_after >
\* offending.roh_after, so every rollback entry has roh_after <= roh_before
\* (= offending.roh_after).
C19_RollbackSafetyAsStated ==
    /\ (RollbackSynthesized /\ LastSafe.roh_after > Offending.roh_after)
        => (last_call.entry = NoEntry /\ last_call.result # "Ok")
    /\ \A n \in 1..Len(ledger) :
        IsRollbackEntry(ledger[n]) => ledger[n].roh_after <= ledger[n].roh_before

\* C19 as amended: no entry is produced whenever last_safe.roh_after >
\* offending.roh_after + 1e-6, so every rollback entry has roh_after <=
\* roh_before + 1e-6, where roh_before = offending.roh_after.
C19_RollbackSafety ==
    /\ (RollbackSynthesized
        /\ LastSafe.roh_after > Offending.roh_after + RoHTolerance)
        => (last_call.entry = NoEntry /\ last_call.result # "Ok")
    /\ (RollbackSynthesized /\ last_call.entry # NoEntry)
        => /\ last_call.entry.roh_before = Offending.roh_after
           /\ last_call.entry.roh_after <= last_call.entry.roh_before + RoHTolerance
    /\ \A n \in 1..Len(ledger) :
        IsRollbackEntry(ledger[n])
            => ledger[n].roh_after <= ledger[n].roh_before + RoHTolerance

\* A rollback from 0.10 back to a last safe 0.28 has been refused.
C19_Witness ==
    /\ RollbackSynthesized
    /\ Offending.subject_id = LastSafe.subject_id
    /\ Offending.roh_after = 1000000
    /\ LastSafe.roh_after = 2800000
    /\ last_call.result = "ErrNothingToRollBack"
    /\ ledger = last_call.before

(***************************************************************************)
(* C20  Subject mismatch                                                   *)
(***************************************************************************)
\* C20: synthesize_rollback returns an error and produces no entry whenever
\* offending.subject_id differs from last_safe.subject_id, irrespective of
\* the risk values.
C20_SubjectMismatch ==
    (RollbackSynthesized /\ Offending.subject_id # LastSafe.subject_id)
        => /\ last_call.result = "ErrSubjectMismatch"
           /\ last_call.entry = NoEntry
           /\ ledger = last_call.before

\* A rollback across two subjects whose risk values would have passed has
\* been refused.
C20_Witness ==
    /\ RollbackSynthesized
    /\ Offending.subject_id # LastSafe.subject_id
    /\ LastSafe.roh_after < Offending.roh_after
    /\ last_call.result = "ErrSubjectMismatch"

NonEnvelopeGuardFails(c) == \E i \in 2..6 : GuardFails(i, c)

\* C24: every downgrade request in which at least one non-envelope guard
\* fails is Denied, for every combination of requires_downgrade,
\* request_capability_downgrade and balance_maintained.
C24_EnvelopeCannotForce ==
    (KernelDecided /\ Downgrade(ctx) /\ NonEnvelopeGuardFails(ctx))
        => ~decision.allowed

(***************************************************************************)
(* C25  Distinct reason per guard                                          *)
(***************************************************************************)
\* The guard of the kernel's chain that denies the request: 2 RoH, 3 flag,
\* 4 sovereign quorum, 5 explicit order, 6 policy stack, 7 envelope; 0 if
\* none does.
DenyingGuard(c) ==
    IF ~is_neuromorph_downgrade(c.from, c.to) THEN 0
    ELSE IF roh_guard_denies(c) THEN 2
    ELSE IF tier1_flag_denies(c) THEN 3
    ELSE IF sovereign_quorum_denies(c) THEN 4
    ELSE IF explicit_order_denies(c) THEN 5
    ELSE IF policystack_gate_denies(c) THEN 6
    ELSE IF envelope_denies(c) THEN 7
    ELSE 0

\* The guard an auditor reads off a reason.
GuardOfReason(reason) ==
    CASE reason = "DeniedRoHViolation" -> 2
      [] reason = "DeniedReversalNotAllowedInTier" -> 3
      [] reason = "DeniedIllegalDowngradeByNonRegulator" -> 4
      [] reason = "DeniedNoSaferAlternativeNotProved" -> 5
      [] reason = "DeniedPolicyStackFailure" -> 6
      [] OTHER -> 0

\* C25: each of the kernel's guards denies with its own DecisionReason, so
\* the reason of a denial determines the guard that denied.
C25_ReasonDeterminesGuard ==
    (KernelDecided /\ ~decision.allowed)
        => DenyingGuard(ctx) = GuardOfReason(decision.reason)

(***************************************************************************)
(* C26  Consent                                                            *)
(***************************************************************************)
\* C26: a downgrade is Allowed only when the request's consent is Minimal
\* or Extended; with consent None or Revoked every downgrade is Denied.
C26_DowngradeNeedsConsent ==
    (KernelDecided /\ Downgrade(ctx) /\ decision.allowed)
        => ctx.required_consent \in {"Minimal", "Extended"}

(***************************************************************************)
(* C21  Serialized appends                                                 *)
(***************************************************************************)
\* C21: for every interleaving of concurrent append calls on one log, two
\* callers that took the same last hexstamp included, the stored log is one
\* strict chain: no two stored entries share a prev_hexstamp.
C21_StrictChain ==
    \A i \in 1..Len(fence_log) : \A j \in 1..Len(fence_log) :
        i # j => fence_log[i].prev_hexstamp # fence_log[j].prev_hexstamp

(***************************************************************************)
(* C22  All-or-nothing append                                              *)
(***************************************************************************)
\* C22: after an append call that fails or is abandoned at any point, the
\* stored log holds the complete record line of that call or nothing of
\* it: no partial record is ever in the file.
C22_AllOrNothing == fragment = <<>>

(***************************************************************************)
(* C27  is_action_permitted                                                *)
(***************************************************************************)
\* The same letter, in either case.
SameLetter(x, y) == x = y \/ {x, y} \in {{"a", "A"}, {"b", "B"}}

\* The label holds a prohibited-harm phrase, whatever the case of letters.
HoldsHarmPhrase(label) ==
    \E h \in prohibited_harms : \E i \in 0..(Len(label) - Len(h)) :
        \A k \in 1..Len(h) : SameLetter(label[i + k], h[k])

ActionChecked == last_call.op = "is_action_permitted"

\* C27: is_action_permitted returns true exactly when the action label
\* holds no prohibited-harm phrase (case-insensitive) and the current state
\* is ModelOnly or consent is Minimal or Extended with a non-empty role
\* list; a prohibited-harm label is refused in every state, ModelOnly
\* included.
C27_ActionPermittedExactly ==
    ActionChecked =>
        /\ last_call.result
            <=> /\ ~HoldsHarmPhrase(last_call.entry.action_label)
                /\ \/ last_call.entry.current_state = ModelOnly
                   \/ /\ last_call.entry.consent \in {"Minimal", "Extended"}
                      /\ last_call.entry.roles # {}
        /\ HoldsHarmPhrase(last_call.entry.action_label) => ~last_call.result

\* A label holding the phrase in another case, inside a longer label, has
\* been refused in ModelOnly.
C27_Witness ==
    /\ ActionChecked
    /\ last_call.entry.current_state = ModelOnly
    /\ last_call.entry.action_label = <<"b", "a", "b">>
    /\ last_call.result = FALSE

(***************************************************************************)
(* C29  Failed rollback                                                    *)
(***************************************************************************)
\* C29: whenever rollback_smart_violation returns an error (index 0 or
\* beyond the entries, subject mismatch, risk check, or the ledger
\* rejecting the append) the ledger's entry sequence is the one before the
\* call.
C29_FailedRollbackLeavesLedger ==
    (last_call.op = "rollback" /\ last_call.result # "Ok")
        => ledger = last_call.before

\* The ledger has rejected a synthesized rollback entry and holds what it
\* held.
C29_Witness ==
    /\ last_call.op = "rollback"
    /\ last_call.result = "ErrChainLinkage"
    /\ last_call.entry # NoEntry
    /\ Len(last_call.before) = 3
    /\ ledger = last_call.before

(***************************************************************************)
(* C30  Stored transitions are valid                                       *)
(***************************************************************************)
\* C30: after any sequence of add_transition calls every transition in the
\* policy's list satisfies validate; a call with an invalid transition
\* returns an error and leaves the list unchanged.
C30_StoredTransitionsValid ==
    /\ \A i \in 1..Len(transitions) : validate(transitions[i]) = "Ok"
    /\ (last_call.op = "add_transition" /\ validate(last_call.entry) # "Ok")
        => /\ last_call.result # "Ok"
           /\ transitions = last_call.before

\* With one transition stored, a ModelOnly -> ControlledHuman jump has been
\* refused.
C30_Witness ==
    /\ last_call.op = "add_transition"
    /\ Len(transitions) = 1
    /\ last_call.entry.from = ModelOnly
    /\ last_call.entry.to = ControlledHuman
    /\ last_call.result = "ErrModelOnlyToControlledHuman"
    /\ transitions = last_call.before

(***************************************************************************)
(* C28  SMART consent guard                                                *)
(***************************************************************************)
\* The guard has allowed a proposal of token kind SMART.
SmartAllowed ==
    /\ pc = "smart_decided"
    /\ ctx.proposal.token_kind = "SMART"
    /\ decision.kind = "Allowed"

\* Everything the claim requires but the effect size: the token id is
\* present and known, the policy's scope and subject are the proposal's,
\* consent resolves and is not revoked, and its depth is at least the
\* required one.
SmartConditionsHold ==
    /\ ctx.proposal.token_id # <<>>
    /\ ctx.proposal.token_id[1] \in DOMAIN ctx.smart_policies
    /\ LET policy == ctx.smart_policies[ctx.proposal.token_id[1]]
       IN  /\ policy.scope = ctx.proposal.scope
           /\ policy.subject_id = ctx.proposal.subject_id
           /\ ctx.resolved.ok
           /\ ~ctx.resolved.revoked
           /\ \/ policy.requires_consent_state = "ConsentMinimal"
              \/ ctx.resolved.consent_state = "ConsentExtended"

\* C28 as stated: a SMART proposal is Allowed only if the conditions hold
\* and the effect size is within the policy bound.
C28_SmartGuardAsStated ==
    SmartAllowed =>
        /\ SmartConditionsHold
        /\ ctx.proposal.l2_delta_norm
            <= ctx.smart_policies[ctx.proposal.token_id[1]].max_effect_size_l2

\* C28 as amended: a SMART proposal is Allowed only if the conditions hold
\* and the effect size is at most the policy bound plus 1e-6.
C28_SmartGuard ==
    SmartAllowed =>
        /\ SmartConditionsHold
        /\ ctx.proposal.l2_delta_norm
            <= ctx.smart_policies[ctx.proposal.token_id[1]].max_effect_size_l2
                + EffectTolerance

\* A proposal needing Minimal consent has been allowed on Extended consent,
\* and the guard's decision for it is Allowed.
C28_Witness ==
    /\ SmartAllowed
    /\ ctx.smart_policies["tok1"].requires_consent_state = "ConsentMinimal"
    /\ ctx.resolved.consent_state = "ConsentExtended"
    /\ ctx.proposal.l2_delta_norm = 5000000

====
